---- MODULE Spec2Model ----
(***************************************************************************)
(* A model of photo_watermark2 (src/main.py): the geometry resolver, the   *)
(* resize policy, the import list, the batch exporter and the template /   *)
(* session-state persistence.                                              *)
(*                                                                         *)
(* A Python str is a sequence of tokens.  A token is "/" (the path         *)
(* separator), "." (a dot) or a run of other characters ("x", "png").      *)
(* A Python optional value is <<>> (None) or <<v>>.                        *)
(***************************************************************************)
EXTENDS Integers, Sequences, FiniteSets, TLC

VARIABLES
    call,        \* the arguments of the pure function under test
    ret,         \* <<>> before it returned, <<value>> after
    paths,       \* ThumbList.paths
    offered,     \* the urls / files handed to the last import handler
    seen,        \* the files the import handlers came across, in first-seen order
    rows,        \* the item data of ThumbList.model_ (one row per thumbnail made)
    export_dir,  \* MainWindow.export_dir
    cfg,         \* MainWindow.cfg
    dir_state,   \* the file system: export_dir is "ok", "uncreatable" or "unwritable"
    pc,          \* position of on_export_all: "idle", "loop", "done" (the summary
                 \* is on the screen), "hint" (the import-first hint is)
    idx,         \* the loop counter i of on_export_all (0 before the loop)
    written,     \* the files on_export_all wrote so far, in order
    msgs,        \* the QMessageBox dialogs shown so far, in order
    log,         \* what became of each item the loop has handled, in order
    progress,    \* the value of the QProgressBar
    raised,      \* the exception that escaped the last handler: <<>> or <<name>>
    controls,    \* the values of the widgets of the control panel
    state_file,  \* the file at STATE_PATH: <<>> (absent) or <<its JSON text>>
    tpl_file,    \* the template file under TEMPLATES_DIR: <<>> or <<its JSON text>>
    state_ok,    \* the file system: the file at STATE_PATH can be written
    dragging,    \* PreviewCanvas.dragging
    last_pos     \* PreviewCanvas.last_pos: <<>> (None) or <<point>>

pureVars == <<call, ret>>
listVars == <<paths, offered, seen, rows>>
exportVars == <<export_dir, cfg, dir_state, pc, idx, written, msgs, log, progress,
               raised>>

persistVars == <<controls, state_file, tpl_file, state_ok, dragging, last_pos>>

vars == <<pureVars, listVars, exportVars, persistVars>>

----------------------------------------------------------------------------
(* Bounds of the model.                                                    *)

MaxDim == 4
MaxOff == 1
MaxSide == 50
MaxValue == 60
MaxBatch == 2
MaxList == 2
MaxShift == 1

----------------------------------------------------------------------------
(* Python's str and os.path on token sequences.                            *)

SEP == "/"
DOT == "."

\* str.rfind(c) + 1: the index of the last c in s, 0 when there is none
RFind(s, c) ==
    LET hits == {k \in 1..Len(s) : s[k] = c}
    IN  IF hits = {} THEN 0 ELSE CHOOSE k \in hits : \A j \in hits : j <= k

\* s[a:b] with 1-based inclusive bounds
Slice(s, a, b) == IF a > b THEN <<>> ELSE SubSeq(s, a, b)

\* str.rstrip('/')
RECURSIVE RStripSep(_)
RStripSep(s) ==
    IF s # <<>> /\ s[Len(s)] = SEP THEN RStripSep(Slice(s, 1, Len(s) - 1)) ELSE s

\* os.path.basename
Basename(p) == Slice(p, RFind(p, SEP) + 1, Len(p))

\* os.path.dirname
Dirname(p) ==
    LET head == Slice(p, 1, RFind(p, SEP))
    IN  IF head # <<>> /\ RStripSep(head) # <<>> THEN RStripSep(head) ELSE head

\* os.path.splitext: <<root, ext>>; leading dots of the file name are no extension
Splitext(p) ==
    LET sepIndex == RFind(p, SEP)
        dotIndex == RFind(p, DOT)
    IN  IF dotIndex > sepIndex
           /\ \E k \in (sepIndex + 1)..(dotIndex - 1) : p[k] # DOT
        THEN <<Slice(p, 1, dotIndex - 1), Slice(p, dotIndex, Len(p))>>
        ELSE <<p, <<>> >>

\* os.path.join(a, b)
Join(a, b) ==
    IF b # <<>> /\ b[1] = SEP THEN b
    ELSE IF a = <<>> \/ a[Len(a)] = SEP THEN a \o b
    ELSE a \o <<SEP>> \o b

\* str.split('/'): the components between the separators
RECURSIVE SplitSep(_)
SplitSep(s) ==
    LET hits == {k \in 1..Len(s) : s[k] = SEP}
    IN  IF hits = {} THEN <<s>>
        ELSE LET k == CHOOSE x \in hits : \A y \in hits : x <= y
             IN  <<Slice(s, 1, k - 1)>> \o SplitSep(Slice(s, k + 1, Len(s)))

\* the loop of os.path.normpath over the components
RECURSIVE NormComps(_, _, _)
NormComps(comps, acc, rooted) ==
    IF comps = <<>> THEN acc
    ELSE LET c == Head(comps)
             up == <<DOT, DOT>>
         IN  IF c = <<>> \/ c = <<DOT>> THEN NormComps(Tail(comps), acc, rooted)
             ELSE IF c # up \/ (~rooted /\ acc = <<>>)
                     \/ (acc # <<>> /\ acc[Len(acc)] = up)
                  THEN NormComps(Tail(comps), Append(acc, c), rooted)
             ELSE IF acc # <<>>
                  THEN NormComps(Tail(comps), Slice(acc, 1, Len(acc) - 1), rooted)
             ELSE NormComps(Tail(comps), acc, rooted)

\* '/'.join(comps)
RECURSIVE JoinSep(_)
JoinSep(comps) ==
    IF comps = <<>> THEN <<>>
    ELSE IF Len(comps) = 1 THEN comps[1]
    ELSE comps[1] \o <<SEP>> \o JoinSep(Tail(comps))

\* os.path.normpath
Normpath(p) ==
    LET rooted == p # <<>> /\ p[1] = SEP
        slashes == IF rooted /\ Len(p) >= 2 /\ p[2] = SEP
                      /\ ~(Len(p) >= 3 /\ p[3] = SEP)
                   THEN <<SEP, SEP>>
                   ELSE IF rooted THEN <<SEP>> ELSE <<>>
        body == slashes \o JoinSep(NormComps(SplitSep(p), <<>>, rooted))
    IN  IF body = <<>> THEN <<DOT>> ELSE body

\* os.getcwd()
Cwd == <<SEP, "cwd">>

\* os.path.abspath
Abspath(p) ==
    IF p # <<>> /\ p[1] = SEP THEN Normpath(p) ELSE Normpath(Join(Cwd, p))

\* str.lower() of one token
LowerTok(t) ==
    CASE t = "PNG" -> "png"
      [] t = "JPG" -> "jpg"
      [] t = "TIF" -> "tif"
      [] t = "JPEG" -> "jpeg"
      [] OTHER -> t

\* str.lower()
Lower(s) == [k \in 1..Len(s) |-> LowerTok(s[k])]

----------------------------------------------------------------------------
(* calc_anchor_pos                                                         *)

Anchors == {"tl", "tm", "tr", "ml", "center", "mr", "bl", "bm", "br"}

calc_anchor_pos_clamped(base_w, base_h, mark_w, mark_h, anchor, offx, offy) ==
    LET mx == base_w \div 2 - mark_w \div 2
        my == base_h \div 2 - mark_h \div 2
        x  == CASE anchor \in {"tl", "ml", "bl"} -> 0
                [] anchor \in {"tm", "center", "bm"} -> mx
                [] anchor \in {"tr", "mr", "br"} -> base_w - mark_w
                [] OTHER -> 0
        y  == CASE anchor \in {"tl", "tm", "tr"} -> 0
                [] anchor \in {"ml", "center", "mr"} -> my
                [] anchor \in {"bl", "bm", "br"} -> base_h - mark_h
                [] OTHER -> 0
        cl(v, hi) == IF v < 0 THEN 0 ELSE IF v > hi THEN hi ELSE v
    IN  <<cl(x + offx, base_w - mark_w), cl(y + offy, base_h - mark_h)>>

calc_anchor_pos(base_w, base_h, mark_w, mark_h, anchor, offx, offy) ==
    LET mapping ==
            [tl     |-> <<0, 0>>,
             tm     |-> <<base_w \div 2 - mark_w \div 2, 0>>,
             tr     |-> <<base_w - mark_w, 0>>,
             ml     |-> <<0, base_h \div 2 - mark_h \div 2>>,
             center |-> <<base_w \div 2 - mark_w \div 2,
                          base_h \div 2 - mark_h \div 2>>,
             mr     |-> <<base_w - mark_w, base_h \div 2 - mark_h \div 2>>,
             bl     |-> <<0, base_h - mark_h>>,
             bm     |-> <<base_w \div 2 - mark_w \div 2, base_h - mark_h>>,
             br     |-> <<base_w - mark_w, base_h - mark_h>>]
        xy == IF anchor \in DOMAIN mapping THEN mapping[anchor] ELSE <<0, 0>>
    IN  <<xy[1] + offx, xy[2] + offy>>

----------------------------------------------------------------------------
(* apply_resize.  An image is its size and whether a resampling pass made  *)
(* it.  Python's float arithmetic (IEEE-754 binary64, round to nearest     *)
(* even) is computed exactly over the integers.                            *)

RECURSIVE Pow2(_)
Pow2(n) == IF n <= 0 THEN 1 ELSE 2 * Pow2(n - 1)

\* floor(log2(k)) for k >= 1
RECURSIVE Log2Floor(_)
Log2Floor(k) == IF k < 2 THEN 0 ELSE 1 + Log2Floor(k \div 2)

\* 2^n mod m
RECURSIVE Pow2Mod(_, _)
Pow2Mod(n, m) == IF n <= 0 THEN 1 % m ELSE (2 * Pow2Mod(n - 1, m)) % m

\* the binary exponent a of num / den: 2^a <= num / den < 2^(a + 1)
RECURSIVE QuotExpFrom(_, _, _)
QuotExpFrom(num, den, a) ==
    IF num >= den
    THEN IF num >= 2 * den * Pow2(a) THEN QuotExpFrom(num, den, a + 1) ELSE a
    ELSE IF num * Pow2(-a) < den THEN QuotExpFrom(num, den, a - 1) ELSE a

QuotExp(num, den) == QuotExpFrom(num, den, 0)

\* num / den in floats, for ints num, den >= 1: the double nearest to the
\* quotient is num / den + QuotErr(num, den) / (den * 2^(52 - a)): the 53-bit
\* significand is num * 2^(52 - a) / den rounded to the nearest integer (the
\* remainder is never half of den, so there is no tie)
QuotErr(num, den) ==
    LET r == (num * Pow2Mod(52 - QuotExp(num, den), den)) % den
    IN  IF 2 * r < den THEN -r ELSE den - r

\* int(w * (num / den)) in floats, for ints w, num, den >= 1: the exact
\* product is w * num / den + w * QuotErr / (den * 2^(52 - a)); it is rounded
\* to the nearest double and then truncated.  Only a product that is exactly
\* an integer k and a quotient that was rounded down can land below k.
IntTimesQuotient(w, num, den) ==
    LET k == (w * num) \div den
        f == (w * num) % den
        e == QuotErr(num, den)
        t == Log2Floor(k)
        x == t - QuotExp(num, den) - 1 - (IF k = Pow2(t) THEN 1 ELSE 0)
        \* the distance below k is at most half the gap to the double before k
        roundsToK == IF x >= 0 THEN w * (-e) <= den * Pow2(x)
                     ELSE w * (-e) * Pow2(-x) <= den
    IN  IF f # 0 \/ e >= 0 THEN k
        ELSE IF roundsToK THEN k ELSE k - 1

\* int(a / b) for positive ints below 2^53: true division is correctly
\* rounded, and its floor is the floor of the exact quotient
IntTrueDiv(a, b) == a \div b

Max(a, b) == IF a >= b THEN a ELSE b

\* Image.resize((w, h), Image.LANCZOS)
Resize(img, w, h) == [img EXCEPT !.size = <<w, h>>, !.resampled = TRUE]

apply_resize(img, rule) ==
    IF rule.resize_mode = "none" THEN img
    ELSE LET w == img.size[1]
             h == img.size[2]
         IN  IF rule.resize_mode = "by_width"
             THEN LET new_w == Max(1, rule.resize_value)
                      new_h == Max(1, IntTrueDiv(h * new_w, w))
                  IN  Resize(img, new_w, new_h)
             ELSE IF rule.resize_mode = "by_height"
             THEN LET new_h == Max(1, rule.resize_value)
                      new_w == Max(1, IntTrueDiv(w * new_h, h))
                  IN  Resize(img, new_w, new_h)
             ELSE IF rule.resize_mode = "by_percent"
             THEN LET v == Max(1, rule.resize_value)
                      new_w == Max(1, IntTimesQuotient(w, v, 100))
                      new_h == Max(1, IntTimesQuotient(h, v, 100))
                  IN  Resize(img, new_w, new_h)
             ELSE img

----------------------------------------------------------------------------
(* The state shared by the specifications: what MainWindow.__init__ and    *)
(* the ThumbList constructor leave behind.                                 *)

DEFAULT_EXPORT_DIR == Join(Cwd, <<"exports">>)

\* a Python tuple and a Python list of the same items are different values
Tuple(items) == [py |-> "tuple", items |-> items]
List(items) == [py |-> "list", items |-> items]

\* ExportRule()
DefaultExportRule ==
    [mode |-> "keep", text |-> <<>>, out_format |-> "PNG", jpeg_quality |-> 90,
     resize_mode |-> "none", resize_value |-> 100]

\* TextStyle()
DefaultTextStyle ==
    [text |-> <<"Sample Watermark">>, opacity |-> 40, font_path |-> <<>>,
     font_size |-> 36, stroke |-> TRUE, stroke_width |-> 2,
     stroke_color |-> Tuple(<<0, 0, 0>>), fill_color |-> Tuple(<<255, 255, 255>>),
     shadow |-> TRUE, shadow_offset |-> Tuple(<<2, 2>>)]

\* ImageMark()
DefaultImageMark == [path |-> <<>>, opacity |-> 40, scale_percent |-> 30]

\* Layout(); rotation_deg is a float holding a whole number
DefaultLayout ==
    [anchor |-> "center", offset_x |-> 0, offset_y |-> 0, rotation_deg |-> 0,
     allow_drag |-> TRUE]

\* WatermarkConfig()
DefaultConfig ==
    [use_text |-> TRUE, text |-> DefaultTextStyle, use_image |-> FALSE,
     image |-> DefaultImageMark, layout |-> DefaultLayout,
     export |-> DefaultExportRule]

----------------------------------------------------------------------------
(* The JSON files.  A JSON text either does not parse or parses to a       *)
(* value; an object is a function from its keys, an array the sequence of  *)
(* its items.  The members of the top-level object are booleans            *)
(* (use_text, use_image), numbers (keys the program does not know) and     *)
(* the four sections; a section is an object or some other JSON value.     *)
(* A call that can raise returns Ok(value) or Raise(name).                 *)

Ok(v) == [raised |-> <<>>, value |-> <<v>>]
Raise(e) == [raised |-> <<e>>, value |-> <<>>]

EmptyObject == [k \in {} |-> 0]

Unparsable == [parses |-> FALSE, object |-> FALSE, members |-> EmptyObject]
JsonObject(m) == [parses |-> TRUE, object |-> TRUE, members |-> m]
JsonArray == [parses |-> TRUE, object |-> FALSE, members |-> EmptyObject]

SectionObject(f) == [object |-> TRUE, fields |-> f]
SectionArray == [object |-> FALSE, fields |-> EmptyObject]

\* the dataclass fields of WatermarkConfig that hold a dataclass
Sections == {"text", "image", "layout", "export"}

\* the fields of TextStyle that hold a sequence of ints
SequenceFields == {"stroke_color", "fill_color", "shadow_offset"}

\* dataclasses.asdict: a dict for each dataclass, field by field; a tuple
\* stays a tuple and a list a list
asdict(c) ==
    [k \in DOMAIN c |->
        IF k \in Sections THEN [f \in DOMAIN c[k] |-> c[k][f]] ELSE c[k]]

\* json.dump: a dict is written as an object, a tuple and a list both as an
\* array, None as null, everything else as itself
json_dump(d) ==
    JsonObject([k \in DOMAIN d |->
        IF k \in Sections
        THEN SectionObject([f \in DOMAIN d[k] |->
                 IF f \in SequenceFields THEN d[k][f].items ELSE d[k][f]])
        ELSE d[k]])

\* json.load: JSONDecodeError for a text that does not parse; an array is read
\* as a list
json_load(text) ==
    IF ~text.parses THEN Raise("JSONDecodeError")
    ELSE Ok([text EXCEPT !.members =
                [k \in DOMAIN text.members |->
                    IF k \in Sections
                    THEN [text.members[k] EXCEPT !.fields =
                             [f \in DOMAIN text.members[k].fields |->
                                 IF f \in SequenceFields
                                 THEN List(text.members[k].fields[f])
                                 ELSE text.members[k].fields[f]]]
                    ELSE text.members[k]]])

\* the dataclass of each section, built with no arguments
SectionDefaults ==
    [text |-> DefaultTextStyle, image |-> DefaultImageMark,
     layout |-> DefaultLayout, export |-> DefaultExportRule]

\* d.get(k, default)
Get(d, k, default) == IF k \in DOMAIN d.members THEN d.members[k] ELSE default

\* cls(**o) for the dataclass of the section k: TypeError when o is no mapping
\* and when it has a key that is no field; the fields o leaves out take their
\* defaults; the values are not looked at
Construct(k, o) ==
    IF ~o.object THEN Raise("TypeError")
    ELSE IF ~(DOMAIN o.fields \subseteq DOMAIN SectionDefaults[k])
    THEN Raise("TypeError")
    ELSE Ok([f \in DOMAIN SectionDefaults[k] |->
                IF f \in DOMAIN o.fields THEN o.fields[f]
                ELSE SectionDefaults[k][f]])

\* WatermarkConfig(**{...}) as on_load_template and load_last_state write it:
\* AttributeError when d has no get, then the four sections in turn
config_from_dict(d) ==
    IF ~d.object THEN Raise("AttributeError")
    ELSE LET text == Construct("text", Get(d, "text", SectionObject(EmptyObject)))
             image == Construct("image", Get(d, "image", SectionObject(EmptyObject)))
             layout == Construct("layout", Get(d, "layout", SectionObject(EmptyObject)))
             export == Construct("export", Get(d, "export", SectionObject(EmptyObject)))
         IN  IF text.raised # <<>> THEN text
             ELSE IF image.raised # <<>> THEN image
             ELSE IF layout.raised # <<>> THEN layout
             ELSE IF export.raised # <<>> THEN export
             ELSE Ok([use_text |-> Get(d, "use_text", TRUE),
                      text |-> text.value[1],
                      use_image |-> Get(d, "use_image", FALSE),
                      image |-> image.value[1],
                      layout |-> layout.value[1],
                      export |-> export.value[1]])

\* json.load followed by the constructor calls
read_config(text) ==
    LET d == json_load(text)
    IN  IF d.raised # <<>> THEN d ELSE config_from_dict(d.value[1])

\* MainWindow.load_last_state: None (<<>>) when the file is absent and when
\* anything raises
load_last_state(file) ==
    IF file = <<>> THEN <<>>
    ELSE LET r == read_config(file[1])
         IN  IF r.raised # <<>> THEN <<>> ELSE r.value

\* MainWindow.save_last_state: a failure to write is swallowed
save_last_state(c, file, ok) == IF ok THEN <<json_dump(asdict(c))>> ELSE file

----------------------------------------------------------------------------
(* The control panel.                                                      *)

\* QSpinBox.setValue / QSlider.setValue
Clamp(v, lo, hi) == IF v < lo THEN lo ELSE IF v > hi THEN hi ELSE v

\* QComboBox.setCurrentText on a combo box that is not editable
SetCurrentText(items, old, t) == IF t \in items THEN t ELSE old

\* the controls in the order on_load_template refills them
ControlNames ==
    <<"chk_text", "edt_text", "sld_text_op", "spn_font", "chk_stroke",
      "spn_stroke_w", "chk_img", "sld_img_op", "spn_img_scale", "cmb_anchor",
      "spn_offx", "spn_offy", "spn_rotate", "cmb_mode", "edt_rule",
      "cmb_format", "spn_quality", "cmb_resize", "spn_resize">>

\* the value the control `name` holds after it is set from the configuration
\* c, `old` being the value it held
set_control(name, c, old) ==
    CASE name = "chk_text" -> c.use_text
      [] name = "edt_text" -> c.text.text
      [] name = "sld_text_op" -> Clamp(c.text.opacity, 0, 100)
      [] name = "spn_font" -> Clamp(c.text.font_size, 8, 256)
      [] name = "chk_stroke" -> c.text.stroke
      [] name = "spn_stroke_w" -> Clamp(c.text.stroke_width, 0, 10)
      [] name = "chk_img" -> c.use_image
      [] name = "sld_img_op" -> Clamp(c.image.opacity, 0, 100)
      [] name = "spn_img_scale" -> Clamp(c.image.scale_percent, 1, 200)
      [] name = "cmb_anchor" -> SetCurrentText(Anchors, old, c.layout.anchor)
      [] name = "spn_offx" -> Clamp(c.layout.offset_x, -5000, 5000)
      [] name = "spn_offy" -> Clamp(c.layout.offset_y, -5000, 5000)
      [] name = "spn_rotate" -> Clamp(c.layout.rotation_deg, -180, 180)
      [] name = "cmb_mode" ->
            SetCurrentText({"keep", "prefix", "suffix"}, old, c.export.mode)
      [] name = "edt_rule" -> c.export.text
      [] name = "cmb_format" ->
            SetCurrentText({"JPEG", "PNG"}, old, c.export.out_format)
      [] name = "spn_quality" -> Clamp(c.export.jpeg_quality, 0, 100)
      [] name = "cmb_resize" ->
            SetCurrentText({"none", "by_width", "by_height", "by_percent"}, old,
                           c.export.resize_mode)
      [] name = "spn_resize" -> Clamp(c.export.resize_value, 1, 10000)

\* the first item of each combo box, current until a text of the list is set
FirstItem(name) ==
    CASE name = "cmb_anchor" -> "tl"
      [] name = "cmb_mode" -> "keep"
      [] name = "cmb_format" -> "JPEG"
      [] name = "cmb_resize" -> "none"
      [] OTHER -> ""

\* MainWindow.build_controls: each control is set from cfg before its signal
\* is connected
build_controls(c) ==
    [name \in {ControlNames[k] : k \in 1..Len(ControlNames)} |->
        set_control(name, c, FirstItem(name))]

\* the assignments of MainWindow.on_change: cfg takes the values of the controls
on_change(c, w) ==
    [c EXCEPT !.use_text = w.chk_text,
              !.text.text = w.edt_text,
              !.text.opacity = w.sld_text_op,
              !.text.font_size = w.spn_font,
              !.text.stroke = w.chk_stroke,
              !.text.stroke_width = w.spn_stroke_w,
              !.use_image = w.chk_img,
              !.image.opacity = w.sld_img_op,
              !.image.scale_percent = w.spn_img_scale,
              !.layout.anchor = w.cmb_anchor,
              !.layout.offset_x = w.spn_offx,
              !.layout.offset_y = w.spn_offy,
              !.layout.rotation_deg = w.spn_rotate,
              !.export.mode = w.cmb_mode,
              !.export.text = w.edt_rule,
              !.export.out_format = w.cmb_format,
              !.export.jpeg_quality = w.spn_quality,
              !.export.resize_mode = w.cmb_resize,
              !.export.resize_value = w.spn_resize]

\* the refill of on_load_template from the k-th control on: a control whose
\* value changes emits its signal, and on_change runs (with its
\* save_last_state) before the next control is set
RECURSIVE refill(_, _, _)
refill(k, s, ok) ==
    IF k > Len(ControlNames) THEN s
    ELSE LET name == ControlNames[k]
             v == set_control(name, s.cfg, s.controls[name])
             w == [s.controls EXCEPT ![name] = v]
             c == on_change(s.cfg, w)
         IN  IF v = s.controls[name] THEN refill(k + 1, s, ok)
             ELSE refill(k + 1,
                         [cfg |-> c, controls |-> w,
                          state_file |-> save_last_state(c, s.state_file, ok)],
                         ok)

----------------------------------------------------------------------------
(* The idle values of each group of variables.                             *)

NoCall == [op |-> "none"]

PureIdle ==
    /\ call = NoCall
    /\ ret = <<>>

ListIdle ==
    /\ paths = <<>>
    /\ offered = <<>>
    /\ seen = <<>>
    /\ rows = <<>>

ExportIdle ==
    /\ export_dir = DEFAULT_EXPORT_DIR
    /\ cfg = DefaultConfig
    /\ dir_state = "ok"
    /\ pc = "idle"
    /\ idx = 0
    /\ written = <<>>
    /\ msgs = <<>>
    /\ log = <<>>
    /\ progress = 0
    /\ raised = <<>>

PersistIdle ==
    /\ controls = build_controls(DefaultConfig)
    /\ state_file = <<>>
    /\ tpl_file = <<>>
    /\ state_ok = TRUE
    /\ dragging = FALSE
    /\ last_pos = <<>>

----------------------------------------------------------------------------
(* SpecAnchor: calc_anchor_pos on every input of the bounded ranges.       *)

AnchorCalls ==
    [op : {"calc_anchor_pos"},
     base_w : 1..MaxDim, base_h : 1..MaxDim,
     mark_w : 1..MaxDim, mark_h : 1..MaxDim,
     anchor : Anchors \cup {"nowhere"},
     offx : (-MaxOff)..MaxOff, offy : (-MaxOff)..MaxOff]

InitAnchor ==
    /\ call \in AnchorCalls
    /\ ret = <<>>
    /\ ListIdle
    /\ ExportIdle
    /\ PersistIdle

CallAnchor ==
    /\ call.op = "calc_anchor_pos"
    /\ ret = <<>>
    /\ ret' = <<calc_anchor_pos(call.base_w, call.base_h, call.mark_w,
                                call.mark_h, call.anchor, call.offx, call.offy)>>
    /\ UNCHANGED <<persistVars, call, listVars, exportVars>>

NextAnchor == CallAnchor

SpecAnchor == InitAnchor /\ [][NextAnchor]_vars

\* the column and the row of an anchor tag
Column(anchor) ==
    CASE anchor \in {"tl", "ml", "bl"} -> "left"
      [] anchor \in {"tm", "center", "bm"} -> "middle"
      [] anchor \in {"tr", "mr", "br"} -> "right"

Row(anchor) ==
    CASE anchor \in {"tl", "tm", "tr"} -> "top"
      [] anchor \in {"ml", "center", "mr"} -> "middle"
      [] anchor \in {"bl", "bm", "br"} -> "bottom"

\* the base the spec gives: 0, floor((canvas - overlay) / 2), canvas - overlay
SpecBase(zone, canvas, overlay) ==
    CASE zone \in {"left", "top"} -> 0
      [] zone = "middle" -> (canvas - overlay) \div 2
      [] zone \in {"right", "bottom"} -> canvas - overlay

\* the base the code gives: the middle is floor(canvas/2) - floor(overlay/2)
CodeBase(zone, canvas, overlay) ==
    CASE zone \in {"left", "top"} -> 0
      [] zone = "middle" -> canvas \div 2 - overlay \div 2
      [] zone \in {"right", "bottom"} -> canvas - overlay

AnchorReturned == call.op = "calc_anchor_pos" /\ ret # <<>> /\ call.anchor \in Anchors

\* C1 as stated: for the nine anchor tags calc_anchor_pos returns
\* (xbase + offsetX, ybase + offsetY) with the middle base
\* floor((canvas - overlay) / 2), unclamped.
C1_AsStated ==
    AnchorReturned =>
        ret[1] = <<SpecBase(Column(call.anchor), call.base_w, call.mark_w) + call.offx,
                   SpecBase(Row(call.anchor), call.base_h, call.mark_h) + call.offy>>

\* C1 amended: for the nine anchor tags calc_anchor_pos returns
\* (xbase + offsetX, ybase + offsetY), unclamped, where the left/top base is 0,
\* the right/bottom base is canvas - overlay and the middle base is
\* floor(canvas / 2) - floor(overlay / 2).
C1_AnchorPos ==
    AnchorReturned =>
        ret[1] = <<CodeBase(Column(call.anchor), call.base_w, call.mark_w) + call.offx,
                   CodeBase(Row(call.anchor), call.base_h, call.mark_h) + call.offy>>

\* a middle anchor on an even canvas with an odd overlay, pushed off the canvas
C1_Witness ==
    /\ AnchorReturned
    /\ call.anchor = "center"
    /\ call.base_w = 2 /\ call.mark_w = 1
    /\ call.offx = -1 /\ call.offy = -1
    /\ call.base_h = call.mark_h
    /\ ret[1] = <<0, -1>>

----------------------------------------------------------------------------
(* SpecResize: apply_resize on every input of the bounded ranges.          *)

ResizeModes == {"none", "by_width", "by_height", "by_percent", "by_magic"}

ResizeCalls ==
    [op : {"apply_resize"},
     w : 1..MaxSide, h : 1..MaxSide,
     resize_mode : ResizeModes,
     resize_value : (-1)..MaxValue]

InitResize ==
    /\ call \in ResizeCalls
    /\ ret = <<>>
    /\ ListIdle
    /\ ExportIdle
    /\ PersistIdle

CallResize ==
    /\ call.op = "apply_resize"
    /\ ret = <<>>
    /\ ret' = <<apply_resize([size |-> <<call.w, call.h>>, resampled |-> FALSE],
                             [DefaultExportRule EXCEPT
                                 !.resize_mode = call.resize_mode,
                                 !.resize_value = call.resize_value])>>
    /\ UNCHANGED <<persistVars, call, listVars, exportVars>>

NextResize == CallResize

SpecResize == InitResize /\ [][NextResize]_vars

\* the size C8 gives for a recognised resizing mode
C8_Size(mode, w, h, value) ==
    LET v == Max(1, value)
    IN  CASE mode = "by_width" -> <<v, Max(1, (h * v) \div w)>>
          [] mode = "by_height" -> <<Max(1, (w * v) \div h), v>>
          [] mode = "by_percent" -> <<Max(1, (w * v) \div 100), Max(1, (h * v) \div 100)>>

\* C8 as stated: apply_resize returns the image unchanged for mode none and
\* for an unrecognised mode, and otherwise an image of the size
\* (max(1,v), max(1, floor(h*max(1,v)/w))) for by_width,
\* (max(1, floor(w*max(1,v)/h)), max(1,v)) for by_height and
\* (max(1, floor(w*max(1,v)/100)), max(1, floor(h*max(1,v)/100))) for by_percent.
C8_AsStated ==
    (call.op = "apply_resize" /\ ret # <<>>) =>
        IF call.resize_mode \in {"by_width", "by_height", "by_percent"}
        THEN ret[1].size = C8_Size(call.resize_mode, call.w, call.h, call.resize_value)
        ELSE ret[1] = [size |-> <<call.w, call.h>>, resampled |-> FALSE]

----------------------------------------------------------------------------
(* The import list: is_image_file and ThumbList.                           *)

SUPPORTED_INPUTS ==
    {<<DOT, "jpg">>, <<DOT, "jpeg">>, <<DOT, "png">>, <<DOT, "bmp">>,
     <<DOT, "tiff">>, <<DOT, "tif">>}

is_image_file_cs(path) == Splitext(path)[2] \in SUPPORTED_INPUTS

is_image_file(path) ==
    LET ext == Lower(Splitext(path)[2])
    IN  ext \in SUPPORTED_INPUTS

\* The disk the program runs on: each directory with its files and its
\* sub-directories, in the order os.walk lists them.
Disk ==
    [p \in {<<SEP, "a">>, <<SEP, "a", SEP, "s">>, <<SEP, "b">>} |->
        CASE p = <<SEP, "a">> ->
               [files |-> << <<"x", DOT, "png">>, <<"n", DOT, "txt">> >>,
                dirs  |-> << <<"s">> >>]
          [] p = <<SEP, "a", SEP, "s">> ->
               [files |-> << <<"z", DOT, "TIF">> >>, dirs |-> <<>>]
          [] p = <<SEP, "b">> ->
               [files |-> << <<"x", DOT, "JPG">>, <<"y", DOT, "png">> >>,
                dirs  |-> <<>>]]

\* the files of the disk PIL cannot decode
Corrupt == {<<SEP, "a", SEP, "s", SEP, "z", DOT, "TIF">>}

InSeq(x, s) == \E k \in 1..Len(s) : s[k] = x

\* os.path.isdir, os.path.isfile
IsDir(p) == Normpath(p) \in DOMAIN Disk

IsFile(p) ==
    LET n == Normpath(p)
    IN  /\ ~IsDir(p)
        /\ Dirname(n) \in DOMAIN Disk
        /\ InSeq(Basename(n), Disk[Dirname(n)].files)

\* os.walk(top): the (root, files) pairs, top-down
RECURSIVE Walk(_)
RECURSIVE WalkEach(_, _)
Walk(top) ==
    LET d == Disk[Normpath(top)]
    IN  << <<top, d.files>> >> \o WalkEach(top, d.dirs)

WalkEach(top, dirs) ==
    IF dirs = <<>> THEN <<>>
    ELSE Walk(Join(top, Head(dirs))) \o WalkEach(top, Tail(dirs))

\* the inner loop of add_path_recursive: fp = os.path.join(root, f) for f in files
RECURSIVE JoinEach(_, _)
JoinEach(root, files) ==
    IF files = <<>> THEN <<>>
    ELSE <<Join(root, Head(files))>> \o JoinEach(root, Tail(files))

\* the outer loop of add_path_recursive: every fp of the walk, in order
RECURSIVE WalkFiles(_)
WalkFiles(walk) ==
    IF walk = <<>> THEN <<>>
    ELSE JoinEach(walk[1][1], walk[1][2]) \o WalkFiles(Tail(walk))

\* the files add_path_recursive(p) looks at, in order
Visited(p) ==
    IF IsDir(p) THEN WalkFiles(Walk(p))
    ELSE IF IsFile(p) THEN <<p>>
    ELSE <<>>

\* what a drag source can drop: a directory, files, a path that does not exist
DropUrls ==
    {<<SEP, "a">>,
     <<SEP, "a", SEP, "x", DOT, "png">>,
     <<SEP, "a", SEP, "n", DOT, "txt">>,
     <<SEP, "b", SEP, "x", DOT, "JPG">>,
     <<SEP, "gone", DOT, "png">>}

\* what the file dialog of on_import returns: existing files
DialogFiles == {u \in DropUrls : IsFile(u)}

\* what add_path_recursive finds on the disk for each path it can be handed
\* (the disk does not change: the listing is taken once)
Listing == [u \in DropUrls |-> Visited(u)]

\* ThumbList.add_path_recursive: paths with the image files of p appended
add_path_recursive(ps, p) == ps \o SelectSeq(Listing[p], is_image_file)

\* the loop over the urls / files of one import
RECURSIVE AddAll(_, _)
AddAll(ps, items) ==
    IF items = <<>> THEN ps
    ELSE AddAll(add_path_recursive(ps, Head(items)), Tail(items))

\* the first loop of refresh_model: drop repeats, keep the order
RECURSIVE Unique(_, _)
Unique(ps, acc) ==
    IF ps = <<>> THEN acc
    ELSE Unique(Tail(ps), IF InSeq(Head(ps), acc) THEN acc ELSE Append(acc, Head(ps)))

\* Image.open(p) and the thumbnail succeed
Decodable(p) == Normpath(p) \notin Corrupt

\* the second loop of refresh_model: a row for each path whose thumbnail is made
Rows(ps) == SelectSeq(ps, Decodable)

\* the files one import came across, in order
RECURSIVE VisitedAll(_)
VisitedAll(items) ==
    IF items = <<>> THEN <<>>
    ELSE Listing[Head(items)] \o VisitedAll(Tail(items))

SeqsUpTo(S, n) == UNION {[1..k -> S] : k \in 1..n}

\* ThumbList.dropEvent
DropEvent(urls) ==
    /\ pc = "idle"
    /\ offered' = urls
    /\ seen' = Unique(VisitedAll(urls), seen)
    /\ paths' = Unique(AddAll(paths, urls), <<>>)
    /\ rows' = Rows(paths')
    /\ UNCHANGED <<persistVars, pureVars, exportVars>>

\* MainWindow.on_import, the dialog not cancelled: ThumbList.add_files
OnImport(files) ==
    /\ pc = "idle"
    /\ files # <<>>
    /\ offered' = files
    /\ seen' = Unique(VisitedAll(files), seen)
    /\ paths' = Unique(AddAll(paths, files), <<>>)
    /\ rows' = Rows(paths')
    /\ UNCHANGED <<persistVars, pureVars, exportVars>>

InitImport ==
    /\ PureIdle
    /\ ListIdle
    /\ ExportIdle
    /\ PersistIdle

NextImport ==
    \/ \E urls \in SeqsUpTo(DropUrls, MaxBatch) : DropEvent(urls)
    \/ \E files \in SeqsUpTo(DialogFiles, MaxBatch) : OnImport(files)

SpecImport == InitImport /\ [][NextImport]_vars

\* the extension of a path is, case-insensitively, one of the six of the allow-list
C6_Supported(p) ==
    \E e \in {"jpg", "jpeg", "png", "bmp", "tiff", "tif",
              "JPG", "JPEG", "PNG", "BMP", "TIFF", "TIF"} :
        /\ Len(p) >= 2
        /\ p[Len(p) - 1] = DOT
        /\ p[Len(p)] = e

\* C6: after any sequence of imports the import list holds only paths with a
\* supported extension (case-insensitively), holds no path twice, and holds
\* the supported files the imports came across in the order of their first
\* appearance.
C6_ImportList ==
    /\ \A k \in 1..Len(paths) : C6_Supported(paths[k])
    /\ \A j, k \in 1..Len(paths) : paths[j] = paths[k] => j = k
    /\ paths = SelectSeq(seen, C6_Supported)

\* a directory walked after one of its files was imported, a file with an
\* upper-case extension first, a text file passed over
C6_Witness ==
    /\ offered = << <<SEP, "a", SEP, "x", DOT, "png">>, <<SEP, "a">> >>
    /\ paths = << <<SEP, "b", SEP, "x", DOT, "JPG">>,
                  <<SEP, "a", SEP, "x", DOT, "png">>,
                  <<SEP, "a", SEP, "s", SEP, "z", DOT, "TIF">> >>
    /\ InSeq(<<SEP, "a", SEP, "n", DOT, "txt">>, seen)

----------------------------------------------------------------------------
(* The compositor and the exporter.  An image is its size, its pixel mode, *)
(* whether it was resampled and the watermark layers composited onto it.   *)


\* os.path.exists
Exists(p) == IsDir(p) \/ IsFile(p)

\* Image.open(p) of a file of the disk
SourceImage(p) ==
    [size |-> <<4, 2>>, mode |-> "RGB", resampled |-> FALSE, layers |-> <<>>]

\* draw_text_watermark: the text layer composited onto the RGBA copy
draw_text_watermark(base, style, layout) ==
    [base EXCEPT !.mode = "RGBA", !.layers = Append(@, "text")]

\* draw_image_watermark
draw_image_watermark(base, mark, layout) ==
    LET img == [base EXCEPT !.mode = "RGBA"]
    IN  IF mark.path = <<>> \/ mark.path[1] = <<>> \/ ~Exists(mark.path[1])
        THEN Ok(img)
        ELSE IF ~(IsFile(mark.path[1]) /\ Decodable(mark.path[1]))
        THEN Raise("open")
        ELSE Ok([img EXCEPT !.layers = Append(@, "image")])

\* apply_watermark_once
apply_watermark_once(img_path, c) ==
    IF ~(IsFile(img_path) /\ Decodable(img_path)) THEN Raise("open")
    ELSE LET base == SourceImage(img_path)
             out1 == IF c.use_text
                     THEN draw_text_watermark(base, c.text, c.layout)
                     ELSE base
         IN  IF c.use_image
             THEN draw_image_watermark(out1, c.image, c.layout)
             ELSE Ok(out1)

\* the out_path of export_image
out_path(src_path, dir, rule) ==
    LET base_name == Splitext(Basename(src_path))[1]
        name == IF rule.mode = "keep" THEN base_name
                ELSE IF rule.mode = "prefix" THEN rule.text \o base_name
                ELSE IF rule.mode = "suffix" THEN base_name \o rule.text
                ELSE base_name
    IN  Join(dir, name \o <<DOT, IF rule.out_format = "JPEG" THEN "jpg" ELSE "png">>)

\* export_image; fs is the state of the export directory, save_ok whether
\* the write of the file goes through
export_image(img, src_path, dir, rule, fs, save_ok) ==
    IF fs = "uncreatable" THEN Raise("makedirs")
    ELSE LET final_img == apply_resize(img, rule)
             encoded == IF rule.out_format = "JPEG" /\ final_img.mode \in {"RGBA", "LA"}
                        THEN [final_img EXCEPT !.mode = "RGB"]
                        ELSE final_img
         IN  IF fs = "unwritable" \/ ~save_ok THEN Raise("save")
             ELSE Ok([path |-> out_path(src_path, dir, rule),
                      src |-> src_path,
                      format |-> IF rule.out_format = "JPEG" THEN "JPEG" ELSE "PNG",
                      image |-> encoded])

\* the guard of on_export_all: the image lies in the export directory
in_export_dir_raw(p, dir) == Dirname(p) = dir

in_export_dir(p, dir) ==
    LET src_dir == Dirname(p)
    IN  Abspath(src_dir) = Abspath(dir)

\* self.progress.setValue(int(i/n*100))
progress_value(i, n) == IntTimesQuotient(100, i, n)

Warning(p) == [kind |-> "warning", item |-> p, count |-> 0]
Summary(n) == [kind |-> "information", item |-> <<"done">>, count |-> n]
ImportFirst == [kind |-> "information", item |-> <<"import first">>, count |-> 0]

\* MainWindow.on_pick_export_dir, the dialog not cancelled
PickExportDir(d) ==
    /\ pc = "idle"
    /\ d # <<>>
    /\ export_dir' = d
    /\ UNCHANGED <<persistVars, pureVars, listVars, cfg, dir_state, pc, idx, written, msgs,
                   log, progress, raised>>

\* MainWindow.on_export_all with nothing imported: a hint, and the return
ExportNothing ==
    /\ pc = "idle"
    /\ paths = <<>>
    /\ msgs' = <<ImportFirst>>
    /\ pc' = "hint"
    /\ raised' = <<>>
    /\ UNCHANGED <<persistVars, pureVars, listVars, export_dir, cfg, dir_state, idx, written,
                   log, progress>>

\* MainWindow.on_export_all up to the loop
ExportBegin ==
    /\ pc = "idle"
    /\ paths # <<>>
    /\ pc' = "loop"
    /\ raised' = <<>>
    /\ UNCHANGED <<persistVars, pureVars, listVars, export_dir, cfg, dir_state, idx, written,
                   msgs, log, progress>>

\* the body of the loop for the image p, the i-th of n: the guard, and in
\* the try block apply_watermark_once and export_image.  `caught` is the
\* exception the except clause caught.
export_one(p, i, n, dir, c, fs, save_ok) ==
    IF in_export_dir(p, dir)
    THEN [outcome |-> "skipped", caught |-> <<>>, files |-> <<>>,
          msgs |-> <<Warning(p)>>, progress |-> <<>>]
    ELSE LET im == apply_watermark_once(p, c)
             ex == IF im.raised # <<>> THEN im
                   ELSE export_image(im.value[1], p, dir, c.export, fs, save_ok)
         IN  [outcome |-> IF ex.raised # <<>> THEN "failed" ELSE "exported",
              caught |-> ex.raised, files |-> ex.value, msgs |-> <<>>,
              progress |-> <<progress_value(i, n)>>]

\* one pass of the loop with a failure leaving the handler (no try / except)
ExportStepUncaught ==
    /\ pc = "loop"
    /\ idx < Len(paths)
    /\ \E save_ok \in BOOLEAN :
          LET p == paths[idx + 1]
              r == export_one(p, idx + 1, Len(paths), export_dir, cfg, dir_state,
                              save_ok)
          IN  /\ idx' = idx + 1
              /\ log' = Append(log, [src |-> p, outcome |-> r.outcome,
                                     error |-> r.caught])
              /\ written' = written \o r.files
              /\ msgs' = msgs \o r.msgs
              /\ progress' = IF r.progress = <<>> \/ r.caught # <<>> THEN progress
                             ELSE r.progress[1]
              /\ raised' = r.caught
              /\ pc' = IF r.caught # <<>> THEN "raised" ELSE pc
    /\ UNCHANGED <<persistVars, pureVars, listVars, export_dir, cfg, dir_state>>

\* one pass of the loop of on_export_all: the guard (a warning and continue),
\* the try / except, the progress bar
ExportStep ==
    /\ pc = "loop"
    /\ idx < Len(paths)
    /\ \E save_ok \in BOOLEAN :
          LET p == paths[idx + 1]
              r == export_one(p, idx + 1, Len(paths), export_dir, cfg, dir_state,
                              save_ok)
          IN  /\ idx' = idx + 1
              /\ log' = Append(log, [src |-> p, outcome |-> r.outcome,
                                     error |-> r.caught])
              /\ written' = written \o r.files
              /\ msgs' = msgs \o r.msgs
              /\ progress' = IF r.progress = <<>> THEN progress ELSE r.progress[1]
    /\ UNCHANGED <<persistVars, pureVars, listVars, export_dir, cfg, dir_state, pc, raised>>

\* the end of on_export_all: the summary
ExportEnd ==
    /\ pc = "loop"
    /\ idx = Len(paths)
    /\ msgs' = Append(msgs, Summary(Len(paths)))
    /\ pc' = "done"
    /\ UNCHANGED <<persistVars, pureVars, listVars, export_dir, cfg, dir_state, idx, written,
                   log, progress, raised>>

\* the dialog is dismissed and on_export_all returns: the record of the
\* batch (the files written, the dialogs shown, what became of each item)
\* starts anew
ExportReturn ==
    /\ pc \in {"done", "hint"}
    /\ pc' = "idle"
    /\ idx' = 0
    /\ written' = <<>>
    /\ msgs' = <<>>
    /\ log' = <<>>
    /\ UNCHANGED <<persistVars, pureVars, listVars, export_dir, cfg, dir_state, progress, raised>>

\* the image paths an import list can hold: files of the disk, one of them
\* dropped under a path that is not normalised
ImagePaths ==
    {<<SEP, "a", SEP, "x", DOT, "png">>,
     <<SEP, "b", SEP, "x", DOT, "JPG">>,
     <<SEP, "a", SEP, "s", SEP, "z", DOT, "TIF">>,
     <<SEP, "b", SEP, DOT, SEP, "y", DOT, "png">>}

\* the import lists: no path twice
ImportLists ==
    {<<>>} \cup {ps \in SeqsUpTo(ImagePaths, MaxList) :
                    \A j, k \in 1..Len(ps) : ps[j] = ps[k] => j = k}

\* the export rules the control panel and a template can set
ExportRules ==
    {[DefaultExportRule EXCEPT !.mode = m, !.text = t, !.out_format = f] :
        m \in {"keep", "prefix", "suffix", "other"},
        t \in {<<"_wm">>, <<SEP, "b", SEP>>},
        f \in {"PNG", "JPEG"}}

\* the directories the export dialog can return
ExportDirs == {<<SEP, "a">>, <<SEP, "b">>, <<SEP, "out">>}

InitExport ==
    /\ PureIdle
    /\ paths \in ImportLists
    /\ offered = paths
    /\ seen = paths
    /\ rows = Rows(paths)
    /\ export_dir = DEFAULT_EXPORT_DIR
    /\ cfg \in {[DefaultConfig EXCEPT !.export = r] : r \in ExportRules}
    /\ dir_state \in {"ok", "uncreatable", "unwritable"}
    /\ pc = "idle"
    /\ idx = 0
    /\ written = <<>>
    /\ msgs = <<>>
    /\ log = <<>>
    /\ progress = 0
    /\ raised = <<>>
    /\ controls = build_controls(cfg)
    /\ state_file = <<>>
    /\ tpl_file = <<>>
    /\ state_ok = TRUE
    /\ dragging = FALSE
    /\ last_pos = <<>>

NextExport ==
    \/ \E d \in ExportDirs : PickExportDir(d)
    \/ ExportNothing
    \/ ExportBegin
    \/ ExportStep
    \/ ExportEnd
    \/ ExportReturn

SpecExport == InitExport /\ [][NextExport]_vars


\* the items the loop has handled so far
Handled == 1..Len(log)

\* C2 as stated: no file written by on_export_all has the path of an image of
\* the import list, skipped or not.
C2_AsStated ==
    \A w \in 1..Len(written), k \in 1..Len(paths) :
        Abspath(written[w].path) # Abspath(paths[k])

\* the image's directory is, by absolute path, the export directory
C3_InExportDir(p) == Abspath(Dirname(p)) = Abspath(export_dir)

HasWarning(p) == \E m \in 1..Len(msgs) : msgs[m] = Warning(p)

\* C3: in a batch export every image whose directory equals the export
\* directory is skipped with a warning and yields no output file, and every
\* other image, before or after it, is still processed; the batch ends only
\* when every image was handled.
C3_GuardSkips ==
    /\ \A j \in Handled :
          IF C3_InExportDir(paths[j])
          THEN /\ log[j].outcome = "skipped"
               /\ HasWarning(paths[j])
               /\ \A w \in 1..Len(written) : written[w].src # paths[j]
          ELSE /\ log[j].outcome \in {"exported", "failed"}
               /\ ~HasWarning(paths[j])
    /\ pc = "done" => Len(log) = Len(paths)

\* an image outside the export directory exported after one that was skipped,
\* the skipped one lying in the export directory under an unnormalised path
C3_Witness ==
    /\ pc = "done"
    /\ Len(log) = 2
    /\ paths[1] = <<SEP, "b", SEP, DOT, SEP, "y", DOT, "png">>
    /\ export_dir = <<SEP, "b">>
    /\ log[1].outcome = "skipped"
    /\ log[2].outcome = "exported"

\* what holds of the loop at every moment: the items handled are the first
\* images of the list, once each and in list order, no error has left the
\* handler, and at the end every image was handled and the summary is shown
C4_LoopInv ==
    /\ raised = <<>>
    /\ pc \in {"idle", "hint", "loop", "done"}
    /\ pc \in {"loop", "done"} =>
          /\ idx = Len(log)
          /\ Len(log) <= Len(paths)
          /\ \A j \in Handled : log[j].src = paths[j]
    /\ pc = "done" =>
          /\ Len(log) = Len(paths)
          /\ msgs # <<>>
          /\ msgs[Len(msgs)] = Summary(Len(paths))

\* what a step out of a loop state is: the next image handled (whatever
\* became of it), or, with no image left, the end with the summary
C4_LoopStep ==
    pc = "loop" =>
        \/ /\ pc' = "loop"
           /\ idx < Len(paths)
           /\ idx' = idx + 1
           /\ Len(log') = Len(log) + 1
           /\ log'[idx'].src = paths[idx']
        \/ /\ pc' = "done"
           /\ idx = Len(paths)
           /\ msgs' = Append(msgs, Summary(Len(paths)))

\* C4: a batch export handles the images of the import list once each, in list
\* order; a failure of one image is caught, the image is skipped and the later
\* images are still attempted; the loop is only left through the summary
\* message.
C4_BatchOrder == [](C4_LoopInv) /\ [][C4_LoopStep]_vars

\* a batch whose first image failed and whose second image was exported
C4_Witness ==
    /\ pc = "done"
    /\ Len(log) = 2
    /\ log[1].outcome = "failed"
    /\ log[2].outcome = "exported"
    /\ Len(written) = 1
    /\ msgs[Len(msgs)] = Summary(2)

\* the name C7 gives: the source file name without its extension, with the
\* rule's text before it (prefix) or after it (suffix)
C7_Name(src, rule) ==
    LET base == Splitext(Basename(src))[1]
    IN  CASE rule.mode = "prefix" -> rule.text \o base
          [] rule.mode = "suffix" -> base \o rule.text
          [] OTHER -> base

\* C7 as stated: every file of the batch is written to
\* <export_dir>/<name>.<ext>, ext being jpg for JPEG and png for PNG.
C7_AsStated ==
    \A w \in 1..Len(written) :
        written[w].path =
            export_dir \o <<SEP>> \o C7_Name(written[w].src, cfg.export)
                \o <<DOT, IF cfg.export.out_format = "JPEG" THEN "jpg" ELSE "png">>

\* C10 as stated: when the export directory cannot be created or written,
\* the batch is aborted and the error reaches the caller: once an image
\* failed for that reason the loop is over, no summary is shown and the
\* handler has raised.
C10_AsStated ==
    (dir_state # "ok" /\ \E j \in Handled : log[j].error \in {<<"makedirs">>, <<"save">>})
        => (pc = "idle" /\ raised # <<>>)

----------------------------------------------------------------------------
(* SpecPersist: the session state and the templates.  The window is built  *)
(* from the session-state file, the user edits controls, saves and loads   *)
(* a template, and closes and reopens the program.                         *)

\* {"use_text": tru
UnparsableFile == Unparsable

\* []
ArrayFile == JsonArray

\* {"text": {"colour": [1, 2, 3]}}
UnknownFieldFile ==
    JsonObject([text |-> SectionObject([colour |-> <<1, 2, 3>>])])

\* {"text": []}
SectionArrayFile == JsonObject([text |-> SectionArray])

\* {"version": 2, "use_text": false, "layout": {"anchor": "br"}}
PartialFile ==
    JsonObject([version |-> 2, use_text |-> FALSE,
                layout |-> SectionObject([anchor |-> "br"])])

\* a template written by on_save_template in an earlier session
SavedFile ==
    json_dump(asdict([DefaultConfig EXCEPT !.text.opacity = 70,
                                           !.layout.offset_x = 12]))

\* what can lie at STATE_PATH when the program starts
StateFiles ==
    {<<>>, <<UnparsableFile>>, <<ArrayFile>>, <<UnknownFieldFile>>,
     <<PartialFile>>}

\* what the template picked in the dialog can hold
TemplateFiles ==
    {<<>>, <<UnparsableFile>>, <<ArrayFile>>, <<UnknownFieldFile>>,
     <<SectionArrayFile>>, <<PartialFile>>, <<SavedFile>>}

\* the edits of the control panel: a control and the value the user gives it
Edits ==
    {<<"chk_text", TRUE>>, <<"chk_text", FALSE>>,
     <<"sld_text_op", 40>>, <<"sld_text_op", 70>>,
     <<"spn_offx", 0>>, <<"spn_offx", 12>>}

\* the files the dialog of on_pick_mark_img can return
MarkFiles == {<<SEP, "a", SEP, "x", DOT, "png">>}

\* the points of the preview the pointer is pressed at and moved to
DragPoints == {<<k, 2 * k>> : k \in 0..MaxShift}

Abs(n) == IF n < 0 THEN -n ELSE n

\* self.cfg = self.load_last_state() or WatermarkConfig()
initial_cfg(file) ==
    IF load_last_state(file) = <<>> THEN DefaultConfig
    ELSE load_last_state(file)[1]

\* MainWindow.__init__ (the program is started, or closed and started anew)
MainWindowInit ==
    /\ pc = "idle"
    /\ call' = [op |-> "__init__"]
    /\ cfg' = initial_cfg(state_file)
    /\ controls' = build_controls(cfg')
    /\ export_dir' = DEFAULT_EXPORT_DIR
    /\ progress' = 0
    /\ raised' = <<>>
    /\ paths' = <<>>
    /\ offered' = <<>>
    /\ seen' = <<>>
    /\ rows' = <<>>
    /\ dragging' = FALSE
    /\ last_pos' = <<>>
    /\ UNCHANGED <<ret, dir_state, pc, idx, written, msgs, log, state_file,
                   tpl_file, state_ok>>

\* the user gives the control `name` the value v: the control emits its
\* signal and MainWindow.on_change runs
OnChange(name, v) ==
    /\ pc = "idle"
    /\ v # controls[name]
    /\ call' = [op |-> "on_change"]
    /\ controls' = [controls EXCEPT ![name] = v]
    /\ cfg' = on_change(cfg, controls')
    /\ state_file' = save_last_state(cfg', state_file, state_ok)
    /\ raised' = <<>>
    /\ UNCHANGED <<ret, listVars, export_dir, dir_state, pc, idx, written, msgs,
                   log, progress, tpl_file, state_ok, dragging, last_pos>>

\* MainWindow.on_save_template, the dialog not cancelled
OnSaveTemplate ==
    /\ pc = "idle"
    /\ call' = [op |-> "on_save_template"]
    /\ tpl_file' = <<json_dump(asdict(cfg))>>
    /\ raised' = <<>>
    /\ UNCHANGED <<ret, listVars, export_dir, cfg, dir_state, pc, idx, written,
                   msgs, log, progress, controls, state_file, state_ok, dragging,
                   last_pos>>

\* MainWindow.on_load_template, the dialog not cancelled: the file is read,
\* the configuration is replaced, the controls are refilled one by one and
\* the session state is saved; what json.load or a constructor raises leaves
\* the handler
OnLoadTemplate ==
    /\ pc = "idle"
    /\ tpl_file # <<>>
    /\ call' = [op |-> "on_load_template"]
    /\ LET r == read_config(tpl_file[1])
           s == refill(1, [cfg |-> r.value[1], controls |-> controls,
                           state_file |-> state_file], state_ok)
       IN  IF r.raised # <<>>
           THEN /\ raised' = r.raised
                /\ UNCHANGED <<cfg, controls, state_file>>
           ELSE /\ raised' = <<>>
                /\ cfg' = s.cfg
                /\ controls' = s.controls
                /\ state_file' = save_last_state(s.cfg, s.state_file, state_ok)
    /\ UNCHANGED <<ret, listVars, export_dir, dir_state, pc, idx, written, msgs,
                   log, progress, tpl_file, state_ok, dragging, last_pos>>

\* MainWindow.on_pick_mark_img, the dialog not cancelled
OnPickMarkImg(file) ==
    /\ pc = "idle"
    /\ file # <<>>
    /\ call' = [op |-> "on_pick_mark_img"]
    /\ cfg' = [cfg EXCEPT !.image.path = <<file>>]
    /\ state_file' = save_last_state(cfg', state_file, state_ok)
    /\ raised' = <<>>
    /\ UNCHANGED <<ret, listVars, export_dir, dir_state, pc, idx, written, msgs,
                   log, progress, controls, tpl_file, state_ok, dragging,
                   last_pos>>

\* PreviewCanvas.mousePressEvent with the left button at the point p
MousePress(p) ==
    /\ pc = "idle"
    /\ call' = [op |-> "mousePressEvent"]
    /\ IF cfg.layout.allow_drag
       THEN /\ dragging' = TRUE
            /\ last_pos' = <<p>>
       ELSE UNCHANGED <<dragging, last_pos>>
    /\ raised' = <<>>
    /\ UNCHANGED <<ret, listVars, export_dir, cfg, dir_state, pc, idx, written,
                   msgs, log, progress, controls, state_file, tpl_file,
                   state_ok>>

\* PreviewCanvas.mouseMoveEvent at the point p during a drag: the offsets of
\* the configuration (the object MainWindow.cfg names) move by the distance
\* from last_pos; the preview is drawn again and nothing else is done
MouseMove(p) ==
    /\ pc = "idle"
    /\ dragging
    /\ cfg.layout.allow_drag
    /\ call' = [op |-> "mouseMoveEvent"]
    /\ cfg' = [cfg EXCEPT !.layout.offset_x = @ + (p[1] - last_pos[1][1]),
                          !.layout.offset_y = @ + (p[2] - last_pos[1][2])]
    /\ Abs(cfg'.layout.offset_x - controls.spn_offx) <= MaxShift
    /\ Abs(cfg'.layout.offset_y - controls.spn_offy) <= 2 * MaxShift
    /\ last_pos' = <<p>>
    /\ raised' = <<>>
    /\ UNCHANGED <<ret, listVars, export_dir, dir_state, pc, idx, written, msgs,
                   log, progress, controls, state_file, tpl_file, state_ok,
                   dragging>>

\* PreviewCanvas.mouseReleaseEvent
MouseRelease ==
    /\ pc = "idle"
    /\ dragging
    /\ call' = [op |-> "mouseReleaseEvent"]
    /\ dragging' = FALSE
    /\ raised' = <<>>
    /\ UNCHANGED <<ret, listVars, export_dir, cfg, dir_state, pc, idx, written,
                   msgs, log, progress, controls, state_file, tpl_file,
                   state_ok, last_pos>>

InitPersist ==
    /\ call = [op |-> "__init__"]
    /\ ret = <<>>
    /\ ListIdle
    /\ state_file \in StateFiles
    /\ tpl_file \in TemplateFiles
    /\ state_ok \in BOOLEAN
    /\ dragging = FALSE
    /\ last_pos = <<>>
    /\ cfg = initial_cfg(state_file)
    /\ controls = build_controls(cfg)
    /\ export_dir = DEFAULT_EXPORT_DIR
    /\ dir_state = "ok"
    /\ pc = "idle"
    /\ idx = 0
    /\ written = <<>>
    /\ msgs = <<>>
    /\ log = <<>>
    /\ progress = 0
    /\ raised = <<>>

NextPersist ==
    \/ MainWindowInit
    \/ \E e \in Edits : OnChange(e[1], e[2])
    \/ OnSaveTemplate
    \/ OnLoadTemplate

SpecPersist == InitPersist /\ [][NextPersist]_vars

----------------------------------------------------------------------------
(* SpecSession: one session of editing, with the preview.  The user edits  *)
(* controls, picks a mark image, drags the watermark on the preview and    *)
(* loads a template of an earlier session.                                 *)

InitSession ==
    /\ call = [op |-> "__init__"]
    /\ ret = <<>>
    /\ ListIdle
    /\ state_file \in {<<>>, <<PartialFile>>}
    /\ tpl_file \in {<<>>, <<PartialFile>>, <<SavedFile>>}
    /\ state_ok \in BOOLEAN
    /\ dragging = FALSE
    /\ last_pos = <<>>
    /\ cfg = initial_cfg(state_file)
    /\ controls = build_controls(cfg)
    /\ export_dir = DEFAULT_EXPORT_DIR
    /\ dir_state = "ok"
    /\ pc = "idle"
    /\ idx = 0
    /\ written = <<>>
    /\ msgs = <<>>
    /\ log = <<>>
    /\ progress = 0
    /\ raised = <<>>

NextSession ==
    \/ \E e \in Edits : OnChange(e[1], e[2])
    \/ OnLoadTemplate
    \/ \E file \in MarkFiles : OnPickMarkImg(file)
    \/ \E p \in DragPoints : MousePress(p)
    \/ \E p \in DragPoints : MouseMove(p)
    \/ MouseRelease

SpecSession == InitSession /\ [][NextSession]_vars

\* the configuration is the one the file was written from
WrittenFrom(file, c) == file = <<json_dump(asdict(c))>>

\* C5 as stated: a configuration serialized by save_last_state or by
\* on_save_template (asdict + JSON) is read back by the loader as a
\* configuration equal to it, the color tuples and the shadow_offset tuple
\* included.
C5_AsStated ==
    /\ WrittenFrom(state_file, cfg) => load_last_state(state_file) = <<cfg>>
    /\ WrittenFrom(tpl_file, cfg) => read_config(tpl_file[1]) = Ok(cfg)

\* the file is unparsable JSON, JSON of the wrong shape, or an object with an
\* unknown field name in one of its sections
Malformed(file) ==
    /\ file # <<>>
    /\ \/ ~file[1].parses
       \/ ~file[1].object
       \/ \E k \in DOMAIN file[1].members \cap Sections :
            \/ ~file[1].members[k].object
            \/ ~(DOMAIN file[1].members[k].fields \subseteq
                    DOMAIN SectionDefaults[k])

\* C9 as stated: with a malformed session-state file the window is built with
\* the default configuration and no error, and with a malformed template file
\* on_load_template returns with no error escaping it.
C9_AsStated ==
    /\ (call.op = "__init__" /\ Malformed(state_file))
           => (raised = <<>> /\ cfg = DefaultConfig)
    /\ (call.op = "on_load_template" /\ Malformed(tpl_file))
           => raised = <<>>

----------------------------------------------------------------------------
(* SpecMark: draw_image_watermark on every input of the bounded ranges.    *)

\* what ImageMark.path can hold: None, the empty string, a file that does
\* not exist, a directory, a file PIL cannot decode, an image
MarkPaths ==
    {<<>>, << <<>> >>,
     << <<SEP, "gone", DOT, "png">> >>,
     << <<SEP, "a">> >>,
     << <<SEP, "a", SEP, "s", SEP, "z", DOT, "TIF">> >>,
     << <<SEP, "a", SEP, "x", DOT, "png">> >>}

\* the running image handed to draw_image_watermark: the source as opened,
\* in one of its pixel modes, or the output of draw_text_watermark
RunningImages ==
    {[SourceImage(<<SEP, "a", SEP, "x", DOT, "png">>) EXCEPT !.mode = m] :
        m \in {"RGB", "RGBA"}}
    \cup {draw_text_watermark(SourceImage(<<SEP, "a", SEP, "x", DOT, "png">>),
                              DefaultTextStyle, DefaultLayout)}

MarkCalls ==
    [op : {"draw_image_watermark"},
     base : RunningImages,
     mark : {[DefaultImageMark EXCEPT !.path = p, !.opacity = o,
                                      !.scale_percent = s] :
                p \in MarkPaths, o \in {0, 40, 100}, s \in {1, 30}},
     layout : {[DefaultLayout EXCEPT !.anchor = a] : a \in {"center", "br"}}]

InitMark ==
    /\ call \in MarkCalls
    /\ ret = <<>>
    /\ ListIdle
    /\ ExportIdle
    /\ PersistIdle

CallMark ==
    /\ call.op = "draw_image_watermark"
    /\ ret = <<>>
    /\ ret' = <<draw_image_watermark(call.base, call.mark, call.layout)>>
    /\ UNCHANGED <<persistVars, call, listVars, exportVars>>

NextMark == CallMark

SpecMark == InitMark /\ [][NextMark]_vars

\* the mark path is unset, names no existing file, or names something that
\* cannot be read as an image
C11_NoMark(path) ==
    \/ path = <<>>
    \/ path[1] = <<>>
    \/ ~Exists(path[1])
    \/ ~(IsFile(path[1]) /\ Decodable(path[1]))

\* C11 as stated: with a mark path that is unset, that names no existing file
\* or that names a file which cannot be read as an image, draw_image_watermark
\* raises no error and returns the running image with nothing composited
\* onto it.
C11_AsStated ==
    (call.op = "draw_image_watermark" /\ ret # <<>> /\ C11_NoMark(call.mark.path))
        => /\ ret[1].raised = <<>>
           /\ ret[1].value[1].layers = call.base.layers
           /\ ret[1].value[1].size = call.base.size

\* the handlers that edit the configuration
C12_Edits == {"on_change", "on_pick_mark_img", "on_load_template", "mouseMoveEvent"}

\* C12 as stated: after on_change, after on_pick_mark_img, after an
\* on_load_template that loaded the template and after a mouseMoveEvent that
\* moved the layout offsets, the session-state file (when it can be written)
\* holds the serialization of the configuration as it then is.
C12_AsStated ==
    [][(/\ call'.op \in C12_Edits
        /\ raised' = <<>>
        /\ state_ok
        /\ call'.op = "mouseMoveEvent" => cfg'.layout # cfg.layout)
           => WrittenFrom(state_file', cfg')]_vars

\* the configuration the template file holds
C13_Stored == read_config(tpl_file[1]).value[1]

\* every value of the configuration c lies inside the range of its control:
\* the controls can hold c
C13_InRange(c) == on_change(c, build_controls(c)) = c

\* C13 as stated: when on_load_template has returned, the on_change callbacks
\* of the refill included, the configuration equals the one stored in the
\* template file in every field, whatever the controls held before, for a
\* template whose values lie inside the control ranges.
C13_AsStated ==
    (call.op = "on_load_template" /\ raised = <<>> /\ C13_InRange(C13_Stored))
        => cfg = C13_Stored

\* C14 as stated: during a batch export of n images, once the i-th item has
\* been handled (exported, failed, or refused by the source-directory guard)
\* the progress bar shows floor(100 * i / n); it shows 100 when the batch has
\* ended.
C14_AsStated ==
    (pc \in {"loop", "done"} /\ idx >= 1)
        => progress = (100 * idx) \div Len(paths)

\* C15 as stated: an on_change triggered by a control other than the two
\* offset spin boxes leaves layout.offset_x and layout.offset_y as they are,
\* in particular as a drag on the preview has set them.
C15_AsStated ==
    [][(/\ call'.op = "on_change"
        /\ controls'.spn_offx = controls.spn_offx
        /\ controls'.spn_offy = controls.spn_offy)
           => /\ cfg'.layout.offset_x = cfg.layout.offset_x
              /\ cfg'.layout.offset_y = cfg.layout.offset_y]_vars

====
